---- MODULE Spec2Model ----
(***************************************************************************)
(* Model of the Dart bridge of Nearby Connections                          *)
(* (connections/dart/nc_adapter_dart.cc): the request functions that turn  *)
(* the engine's completion callbacks into blocking calls, the result and   *)
(* event messages they post, and the shared statics they run on.           *)
(*                                                                         *)
(* Caller threads run the *Dart request functions one shared-memory access *)
(* at a time; the engine runs ResultCB and the Listener*CB callbacks on    *)
(* its own threads.  Dart_PostCObject_DL may fail (ok = FALSE).            *)
(***************************************************************************)
EXTENDS Integers, Sequences, FiniteSets, TLC

\* ------------------------------------------------------------------ bounds

\* Completion callbacks the engine may hold at one time.
MaxPending == 2
\* Largest size of a received bytes payload.
MaxSize == 2

\* ------------------------------------------------------------ value spaces

Threads == {1, 2}
ResultPorts == {1, 2}
ListenerVersions == {1, 2}
Instances == {"NULL", "instance"}
Statuses == {"NC_STATUS_SUCCESS", "NC_STATUS_ERROR"}
PayloadTypes ==
    {"PAYLOAD_TYPE_UNKNOWN", "PAYLOAD_TYPE_STREAM", "PAYLOAD_TYPE_BYTE",
     "PAYLOAD_TYPE_FILE"}

NcPayloadTypes ==
    {"NC_PAYLOAD_TYPE_UNKNOWN", "NC_PAYLOAD_TYPE_BYTES",
     "NC_PAYLOAD_TYPE_STREAM", "NC_PAYLOAD_TYPE_FILE"}
EndpointIds == {"ABCD"}
EndpointInfos == {"info"}
PayloadIds == {7}
FileNames == {"/tmp/file"}

ConnectionFields ==
    {"initiated_dart_port", "accepted_dart_port", "rejected_dart_port",
     "disconnected_dart_port", "bandwidth_changed_dart_port"}
DiscoveryFields ==
    {"found_dart_port", "lost_dart_port", "distance_changed_dart_port"}
PayloadFields ==
    {"initial_byte_info_port", "initial_stream_info_port",
     "initial_file_info_port", "payload_progress_dart_port"}

FieldIndex(f) ==
    CASE f \in {"initiated_dart_port", "found_dart_port",
                "initial_byte_info_port"} -> 1
      [] f \in {"accepted_dart_port", "lost_dart_port",
                "initial_stream_info_port"} -> 2
      [] f \in {"rejected_dart_port", "distance_changed_dart_port",
                "initial_file_info_port"} -> 3
      [] f \in {"disconnected_dart_port", "payload_progress_dart_port"} -> 4
      [] OTHER -> 5

\* The listener structs a caller passes: version v of a struct has its own
\* port in every field, and no port is shared between structs or with the
\* result ports.
ConnectionListenerDart(v) == [f \in ConnectionFields |-> 100 + 10 * v + FieldIndex(f)]
DiscoveryListenerDart(v) == [f \in DiscoveryFields |-> 200 + 10 * v + FieldIndex(f)]
PayloadListenerDart(v) == [f \in PayloadFields |-> 300 + 10 * v + FieldIndex(f)]

\* Statics are zero-initialized.
ZeroListener(fields) == [f \in fields |-> 0]

ListenerPorts(v) ==
    {ConnectionListenerDart(v)[f] : f \in ConnectionFields}
      \cup {DiscoveryListenerDart(v)[f] : f \in DiscoveryFields}
      \cup {PayloadListenerDart(v)[f] : f \in PayloadFields}

Operations ==
    {"EnableBleV2Dart", "StartAdvertisingDart", "StopAdvertisingDart",
     "StartDiscoveryDart", "StopDiscoveryDart", "RequestConnectionDart",
     "AcceptConnectionDart", "RejectConnectionDart",
     "DisconnectFromEndpointDart", "SendPayloadDart"}
ListenerOperations ==
    {"StartAdvertisingDart", "StartDiscoveryDart", "RequestConnectionDart",
     "AcceptConnectionDart"}

\* A pointer to a CountDownLatch: the stack slot (thread) it lives in, and
\* whether the latch it was taken from has been destroyed since.
NullLatch == [slot |-> 0, stale |-> FALSE]
LatchPtr(t) == [slot |-> t, stale |-> FALSE]

NoCall ==
    [op |-> "none", instance |-> "NULL", result_cb |-> 0, listener |-> 0,
     type |-> "none"]
NoCallback == [phase |-> "free", owner |-> 0, fresh |-> FALSE, ok |-> FALSE]
NoEvent == [kind |-> "none"]

\* ------------------------------------------------- NearbyFileHandler values

\* Tasks posted to the file handler in one run, and the longest path list.
MaxTasks == 2
MaxPaths == 2

\* std::make_unique<TaskRunnerImpl>(1): the threads of the task runner.
RunnerThreads_Two == 1 + 1
RunnerThreads == 1

\* absl::SleepFor(absl::Seconds(1)) before the first attempt and
\* absl::SleepFor(absl::Seconds(3)) before the second.
GracePeriod == 1
RetryDelay == 3

Paths == {"a", "b"}
PathLists == UNION {[1..n -> Paths] : n \in 0..MaxPaths}

\* std::filesystem::file_size of an existing path.
FileSize(path) == IF path = "a" THEN 1 ELSE 2

TaskKinds == {"OpenFiles", "GetUniquePath", "DeleteFilesFromDisk"}

Idle ==
    [id |-> 0, kind |-> "none", file_paths |-> <<>>, pc |-> "idle", i |-> 0,
     value |-> <<>>]

VARIABLES
    serialized,     \* the consumer issues a request only when none is in flight
    reliable,       \* the engine completes every operation it is given
    port,                               \* static Dart_Port port
    adapter_finished,                   \* static CountDownLatch *adapter_finished
    current_connection_listener_dart,
    current_discovery_listener_dart,
    current_payload_listener_dart,
    finished,       \* the CountDownLatch on each caller's stack
    pc,             \* where each caller thread is in its request function
    cur,            \* the arguments of each caller's request
    todo,           \* fields of the listener struct still to be copied
    awaiting,       \* the latch a caller reached through adapter_finished->
    loaded,         \* the value a caller read through a Dart_Port reference
    callbacks,      \* completion callbacks the engine holds
    registered,     \* listener kinds whose callbacks the engine was given
    posted,         \* the calls of Dart_PostCObject_DL made by the last step
    event,          \* the event callback run by the last step, if any
    results,        \* per caller: result posts made for its current request
    invoked,        \* per caller: the engine operation was invoked
    completed,      \* per caller: status its completion callback was given
    released,       \* per caller: whose callback released the latch it left
    ub,             \* how a destroyed latch was used, if one was
    crashed,
    sequenced_task_runner_, \* NearbyFileHandler: tasks posted and not yet taken
    workers,        \* what each thread of the task runner is doing
    submitted,      \* tasks posted so far
    disk,           \* the paths that exist on the file system
    held,           \* the existing paths another process keeps from removal
    log             \* what the file tasks did, in order

vars ==
    <<serialized, reliable, port, adapter_finished,
      current_connection_listener_dart, current_discovery_listener_dart,
      current_payload_listener_dart, finished, pc, cur, todo, awaiting,
      loaded, callbacks, registered, posted, event, results, invoked, completed,
      released, ub, crashed,
      sequenced_task_runner_, workers, submitted, disk, held, log>>

file_handler == <<sequenced_task_runner_, workers, submitted, disk, held, log>>

listeners ==
    <<current_connection_listener_dart, current_discovery_listener_dart,
      current_payload_listener_dart>>
ghost == <<results, invoked, completed, released>>

\* --------------------------------------------------------- message channel

\* Dart_PostCObject_DL(chan, message) with outcome ok.
Post(chan, fields, ok) == [chan |-> chan, fields |-> fields, ok |-> ok]

\* ----------------------------------------------------------- latch helpers

NewLatch == [count |-> 1, live |-> TRUE, by |-> 0]
DeadLatch == [count |-> 0, live |-> FALSE, by |-> 0]

\* CountDownLatch::CountDown by a callback of caller `owner` (0: of a request
\* the caller has since left).
CountDown(latch, who) ==
    IF latch.count > 0
    THEN [latch EXCEPT !.count = latch.count - 1,
                       !.by = IF latch.count = 1 THEN who ELSE latch.by]
    ELSE latch

Staled(ptr, t) == IF ptr.slot = t THEN [ptr EXCEPT !.stale = TRUE] ELSE ptr

\* One line of the record of what the file tasks did.
Line(task, what, path, n, seconds, ok, value) ==
    [id |-> task.id, kind |-> task.kind, file_paths |-> task.file_paths,
     what |-> what, path |-> path, i |-> task.i, n |-> n, seconds |-> seconds,
     ok |-> ok, value |-> value, disk |-> disk, held |-> held]

\* NearbyFileHandler::NearbyFileHandler(): a task runner with nothing posted;
\* the file system holds whatever it holds.
NearbyFileHandler ==
    /\ sequenced_task_runner_ = <<>>
    /\ workers = [w \in 1..RunnerThreads |-> Idle]
    /\ submitted = 0
    /\ log = <<>>
    /\ disk \in SUBSET Paths
    /\ held \in SUBSET disk

\* --------------------------------------------------------------------- Init

Init ==
    /\ serialized \in BOOLEAN
    /\ reliable \in BOOLEAN
    /\ port = 0
    /\ adapter_finished = NullLatch
    /\ current_connection_listener_dart = ZeroListener(ConnectionFields)
    /\ current_discovery_listener_dart = ZeroListener(DiscoveryFields)
    /\ current_payload_listener_dart = ZeroListener(PayloadFields)
    /\ finished = [t \in Threads |-> DeadLatch]
    /\ pc = [t \in Threads |-> "idle"]
    /\ cur = [t \in Threads |-> NoCall]
    /\ todo = [t \in Threads |-> {}]
    /\ awaiting = [t \in Threads |-> NullLatch]
    /\ loaded = [t \in Threads |-> 0]
    /\ callbacks = [i \in 1..MaxPending |-> NoCallback]
    /\ registered = {}
    /\ posted = <<>>
    /\ event = NoEvent
    /\ results = [t \in Threads |-> <<>>]
    /\ invoked = [t \in Threads |-> FALSE]
    /\ completed = [t \in Threads |-> "none"]
    /\ released = [t \in Threads |-> 0]
    /\ ub = "none"
    /\ crashed = FALSE
    /\ NearbyFileHandler

\* ------------------------------------------------- the consumer's requests

\* The requests a consumer may issue: the operation and its arguments.
Requests(instances, ports, versions) ==
    {r \in [op : Operations, instance : instances, result_cb : ports,
            listener : versions \cup {0}, type : PayloadTypes \cup {"none"}] :
       /\ (r.listener = 0) = (r.op \notin ListenerOperations)
       /\ (r.type = "none") = (r.op # "SendPayloadDart")}

\* The consumer calls a request function on thread t; a consumer that
\* serializes does so only when no request is in flight.  Completion
\* callbacks and latch decrements of the request t has left no longer count
\* as its own.
Call(t, requests) ==
    /\ ~crashed
    /\ pc[t] = "idle"
    /\ serialized => \A u \in Threads : pc[u] = "idle"
    /\ \E r \in requests : cur' = [cur EXCEPT ![t] = r]
    /\ pc' = [pc EXCEPT ![t] = "entry"]
    /\ callbacks' =
         [i \in 1..MaxPending |->
            IF callbacks[i].owner = t
            THEN [callbacks[i] EXCEPT !.fresh = FALSE] ELSE callbacks[i]]
    /\ finished' =
         [u \in Threads |->
            IF finished[u].by = t THEN [finished[u] EXCEPT !.by = 0 - 1]
            ELSE finished[u]]
    /\ posted' = <<>>
    /\ event' = NoEvent
    /\ UNCHANGED <<serialized, reliable, port, adapter_finished, listeners,
                   todo, awaiting, loaded, registered, ghost, ub, crashed>>
    /\ UNCHANGED file_handler

\* The request function has returned and the consumer has taken its result.
Forget(t) ==
    /\ ~crashed
    /\ pc[t] = "returned"
    /\ pc' = [pc EXCEPT ![t] = "idle"]
    /\ cur' = [cur EXCEPT ![t] = NoCall]
    /\ results' = [results EXCEPT ![t] = <<>>]
    /\ invoked' = [invoked EXCEPT ![t] = FALSE]
    /\ completed' = [completed EXCEPT ![t] = "none"]
    /\ released' = [released EXCEPT ![t] = 0]
    /\ posted' = <<>>
    /\ event' = NoEvent
    /\ UNCHANGED <<serialized, reliable, port, adapter_finished, listeners,
                   finished, todo, awaiting, loaded, callbacks, registered,
                   ub, crashed>>
    /\ UNCHANGED file_handler

\* ------------------------------------------ steps of the request functions

\* Leaving a request function: the latch on the caller's stack, if it made
\* one, is destroyed, and every pointer to it dangles.
Return(t, by) ==
    /\ pc' = [pc EXCEPT ![t] = "returned"]
    /\ finished' = [finished EXCEPT ![t] = DeadLatch]
    /\ adapter_finished' =
         IF finished[t].live THEN Staled(adapter_finished, t)
         ELSE adapter_finished
    /\ awaiting' =
         [u \in Threads |->
            IF u = t THEN NullLatch
            ELSE IF finished[t].live THEN Staled(awaiting[u], t)
            ELSE awaiting[u]]
    /\ released' = [released EXCEPT ![t] = by]

\* if (instance == nullptr) { PostResult(result_cb, NC_STATUS_ERROR); return; }
CheckInstance(t) ==
    /\ pc' = [pc EXCEPT ![t] =
                IF cur[t].instance = "NULL" THEN "PostResult" ELSE "port"]
    /\ posted' = <<>>
    /\ UNCHANGED <<port, adapter_finished, listeners, finished, todo,
                   awaiting, loaded, callbacks, registered, ghost, ub, crashed>>

\* PostResult, first statement: port = result_cb, result_cb being a reference
\* to the caller's own parameter.
PostResultStore(t) ==
    /\ port' = cur[t].result_cb
    /\ pc' = [pc EXCEPT ![t] = "PostResult.post"]
    /\ posted' = <<>>
    /\ UNCHANGED <<adapter_finished, listeners, finished, todo, awaiting,
                   loaded, callbacks, registered, ghost, ub, crashed>>

\* PostResult(port, ...): result_cb refers to the static port itself, so the
\* statement port = result_cb reads port and writes the value back, and the
\* post that follows reads port again.
PostResultLoad(t) ==
    /\ loaded' = [loaded EXCEPT ![t] = port]
    /\ pc' = [pc EXCEPT ![t] = "PostResult.store"]
    /\ posted' = <<>>
    /\ UNCHANGED <<port, adapter_finished, listeners, finished, todo,
                   awaiting, callbacks, registered, ghost, ub, crashed>>

PostResultStoreAlias(t) ==
    /\ port' = loaded[t]
    /\ pc' = [pc EXCEPT ![t] = "PostResult.postalias"]
    /\ posted' = <<>>
    /\ UNCHANGED <<adapter_finished, listeners, finished, todo, awaiting,
                   loaded, callbacks, registered, ghost, ub, crashed>>

\* PostResult, the rest: post the one-field message to result_cb, log a
\* failure; then the request function returns.
PostResultSend(t, chan, value) ==
    /\ \E ok \in BOOLEAN :
         /\ posted' = <<Post(chan, <<value>>, ok)>>
         /\ results' = [results EXCEPT ![t] = Append(@, Post(chan, <<value>>, ok))]
    /\ Return(t, 0)
    /\ loaded' = [loaded EXCEPT ![t] = 0]
    /\ UNCHANGED <<port, listeners, todo, callbacks, registered, invoked,
                   completed, ub, crashed>>

PostResult(t, value) ==
    CASE pc[t] = "PostResult" -> PostResultStore(t)
      [] pc[t] = "PostResult.post" -> PostResultSend(t, cur[t].result_cb, value)
      [] pc[t] = "PostResult.load" -> PostResultLoad(t)
      [] pc[t] = "PostResult.store" -> PostResultStoreAlias(t)
      [] pc[t] = "PostResult.postalias" -> PostResultSend(t, port, value)
      [] OTHER -> FALSE

InPostResult(t) ==
    pc[t] \in {"PostResult", "PostResult.post", "PostResult.load",
               "PostResult.store", "PostResult.postalias"}

\* port = result_cb;
RecordPort(t, next, fields) ==
    /\ port' = cur[t].result_cb
    /\ pc' = [pc EXCEPT ![t] = next]
    /\ todo' = [todo EXCEPT ![t] = fields]
    /\ posted' = <<>>
    /\ UNCHANGED <<adapter_finished, listeners, finished, awaiting, loaded,
                   callbacks, registered, ghost, ub, crashed>>

\* current_connection_listener_dart = info_dart.connection_listener: a plain
\* struct copy, one field at a time in no particular order.
InstallConnectionListener(t, next) ==
    /\ \E f \in todo[t] :
         /\ current_connection_listener_dart' =
              [current_connection_listener_dart EXCEPT
                 ![f] = ConnectionListenerDart(cur[t].listener)[f]]
         /\ todo' = [todo EXCEPT ![t] = @ \ {f}]
         /\ pc' = [pc EXCEPT ![t] = IF todo[t] = {f} THEN next ELSE @]
    /\ posted' = <<>>
    /\ UNCHANGED <<port, adapter_finished, current_discovery_listener_dart,
                   current_payload_listener_dart, finished, awaiting, loaded,
                   callbacks, registered, ghost, ub, crashed>>

\* Mutant: installing the discovery listener also resets the payload one.
InstallDiscoveryListener_ResetsPayload(t, next) ==
    /\ \E f \in todo[t] :
         /\ current_discovery_listener_dart' =
              [current_discovery_listener_dart EXCEPT
                 ![f] = DiscoveryListenerDart(cur[t].listener)[f]]
         /\ todo' = [todo EXCEPT ![t] = @ \ {f}]
         /\ pc' = [pc EXCEPT ![t] = IF todo[t] = {f} THEN next ELSE @]
    /\ current_payload_listener_dart' = ZeroListener(PayloadFields)
    /\ posted' = <<>>
    /\ UNCHANGED <<port, adapter_finished, current_connection_listener_dart,
                   finished, awaiting, loaded,
                   callbacks, registered, ghost, ub, crashed>>

\* current_discovery_listener_dart = listener_dart
InstallDiscoveryListener(t, next) ==
    /\ \E f \in todo[t] :
         /\ current_discovery_listener_dart' =
              [current_discovery_listener_dart EXCEPT
                 ![f] = DiscoveryListenerDart(cur[t].listener)[f]]
         /\ todo' = [todo EXCEPT ![t] = @ \ {f}]
         /\ pc' = [pc EXCEPT ![t] = IF todo[t] = {f} THEN next ELSE @]
    /\ posted' = <<>>
    /\ UNCHANGED <<port, adapter_finished, current_connection_listener_dart,
                   current_payload_listener_dart, finished, awaiting, loaded,
                   callbacks, registered, ghost, ub, crashed>>

\* current_payload_listener_dart = listener_dart
InstallPayloadListener(t, next) ==
    /\ \E f \in todo[t] :
         /\ current_payload_listener_dart' =
              [current_payload_listener_dart EXCEPT
                 ![f] = PayloadListenerDart(cur[t].listener)[f]]
         /\ todo' = [todo EXCEPT ![t] = @ \ {f}]
         /\ pc' = [pc EXCEPT ![t] = IF todo[t] = {f} THEN next ELSE @]
    /\ posted' = <<>>
    /\ UNCHANGED <<port, adapter_finished, current_connection_listener_dart,
                   current_discovery_listener_dart, finished, awaiting, loaded,
                   callbacks, registered, ghost, ub, crashed>>

\* Mutant: the new latch is not made the current one.
Arm_KeepsOldSignal(t) ==
    /\ finished' = [finished EXCEPT ![t] = NewLatch]
    /\ pc' = [pc EXCEPT ![t] = "invoke"]
    /\ posted' = <<>>
    /\ UNCHANGED <<port, adapter_finished, listeners, todo, awaiting, loaded,
                   callbacks, registered, ghost, ub, crashed>>

\* nearby::CountDownLatch finished(1); adapter_finished = &finished;
Arm(t) ==
    /\ finished' = [finished EXCEPT ![t] = NewLatch]
    /\ adapter_finished' = LatchPtr(t)
    /\ pc' = [pc EXCEPT ![t] = "invoke"]
    /\ posted' = <<>>
    /\ UNCHANGED <<port, listeners, todo, awaiting, loaded, callbacks,
                   registered, ghost, ub, crashed>>

FreeSlots == {i \in 1..MaxPending : callbacks[i].phase = "free"}
FirstFree == CHOOSE i \in FreeSlots : \A j \in FreeSlots : i <= j

\* Nc<Operation>(instance, ..., [](NC_STATUS status) { ResultCB(status); }):
\* the engine takes the operation, the completion callback and, with a
\* listener, the event callbacks of `kind`.  A reliable engine will invoke
\* the completion callback exactly once; any other may never do so.
Invoke(t, kind) ==
    /\ invoked' = [invoked EXCEPT ![t] = TRUE]
    /\ registered' = IF kind = "none" THEN registered ELSE registered \cup {kind}
    /\ \E schedule \in (IF reliable THEN {TRUE} ELSE BOOLEAN) :
         IF schedule
         THEN /\ FreeSlots # {}
              /\ callbacks' =
                   [callbacks EXCEPT ![FirstFree] =
                      [phase |-> "pending", owner |-> t, fresh |-> TRUE, ok |-> FALSE]]
         ELSE UNCHANGED callbacks
    /\ pc' = [pc EXCEPT ![t] = "await"]
    /\ posted' = <<>>
    /\ UNCHANGED <<port, adapter_finished, listeners, finished, todo,
                   awaiting, loaded, results, completed, released, ub, crashed>>

\* Mutant: the wait gives up after a while.
AwaitFinished_TimesOut(t) ==
    /\ Return(t, finished[t].by)
    /\ posted' = <<>>
    /\ UNCHANGED <<port, listeners, todo, loaded, callbacks, registered,
                   results, invoked, completed, ub, crashed>>

\* finished.Await(): blocks until the caller's own latch is at zero, then
\* the request function returns.
AwaitFinished(t) ==
    /\ finished[t].count = 0
    /\ Return(t, finished[t].by)
    /\ posted' = <<>>
    /\ UNCHANGED <<port, listeners, todo, loaded, callbacks, registered,
                   results, invoked, completed, ub, crashed>>

\* adapter_finished->Await(), the read of the static pointer.
AwaitLoad(t) ==
    /\ awaiting' = [awaiting EXCEPT ![t] = adapter_finished]
    /\ pc' = [pc EXCEPT ![t] = "await.wait"]
    /\ posted' = <<>>
    /\ UNCHANGED <<port, adapter_finished, listeners, finished, todo, loaded,
                   callbacks, registered, ghost, ub, crashed>>

\* adapter_finished->Await(), the wait on the latch the pointer gave.  A
\* latch destroyed by its owner's return is a dangling reference: the wait
\* may crash or come back.
AwaitWait(t) ==
    /\ posted' = <<>>
    /\ IF awaiting[t].stale
       THEN /\ ub' = "Await"
            /\ \E outcome \in {"crash", "return"} :
                 IF outcome = "crash"
                 THEN /\ crashed' = TRUE
                      /\ UNCHANGED <<pc, finished, adapter_finished, awaiting,
                                     released>>
                 ELSE /\ Return(t, 0 - 1)
                      /\ UNCHANGED crashed
       ELSE /\ finished[awaiting[t].slot].count = 0
            /\ Return(t, finished[awaiting[t].slot].by)
            /\ UNCHANGED <<ub, crashed>>
    /\ UNCHANGED <<port, listeners, todo, loaded, callbacks, registered,
                   results, invoked, completed>>

AwaitAdapterFinished(t) ==
    CASE pc[t] = "await" -> AwaitLoad(t)
      [] pc[t] = "await.wait" -> AwaitWait(t)
      [] OTHER -> FALSE

InAwait(t) == pc[t] \in {"await", "await.wait"}

\* ---------------------------------------------------- the request functions

Request(t, op) ==
    /\ ~crashed
    /\ cur[t].op = op
    /\ event' = NoEvent
    /\ UNCHANGED <<serialized, reliable, cur>>
    /\ UNCHANGED file_handler

EnableBleV2Dart(t) ==
    /\ Request(t, "EnableBleV2Dart")
    /\ CASE pc[t] = "entry" -> RecordPort(t, "arm", {})
         [] pc[t] = "arm" -> Arm(t)
         [] pc[t] = "invoke" -> Invoke(t, "none")
         [] pc[t] = "await" -> AwaitFinished(t)
         [] OTHER -> FALSE

StartAdvertisingDart(t) ==
    /\ Request(t, "StartAdvertisingDart")
    /\ CASE pc[t] = "entry" -> CheckInstance(t)
         [] InPostResult(t) -> PostResult(t, "NC_STATUS_ERROR")
         [] pc[t] = "port" -> RecordPort(t, "install", ConnectionFields)
         [] pc[t] = "install" -> InstallConnectionListener(t, "arm")
         [] pc[t] = "arm" -> Arm(t)
         [] pc[t] = "invoke" -> Invoke(t, "connection")
         [] pc[t] = "await" -> AwaitFinished(t)
         [] OTHER -> FALSE

StopAdvertisingDart(t) ==
    /\ Request(t, "StopAdvertisingDart")
    /\ CASE pc[t] = "entry" -> CheckInstance(t)
         [] InPostResult(t) -> PostResult(t, "NC_STATUS_ERROR")
         [] pc[t] = "port" -> RecordPort(t, "arm", {})
         [] pc[t] = "arm" -> Arm(t)
         [] pc[t] = "invoke" -> Invoke(t, "none")
         [] pc[t] = "await" -> AwaitFinished(t)
         [] OTHER -> FALSE

StartDiscoveryDart(t) ==
    /\ Request(t, "StartDiscoveryDart")
    /\ CASE pc[t] = "entry" -> CheckInstance(t)
         [] InPostResult(t) -> PostResult(t, "NC_STATUS_ERROR")
         [] pc[t] = "port" -> RecordPort(t, "install", DiscoveryFields)
         [] pc[t] = "install" -> InstallDiscoveryListener(t, "arm")
         [] pc[t] = "arm" -> Arm(t)
         [] pc[t] = "invoke" -> Invoke(t, "discovery")
         [] pc[t] = "await" -> AwaitFinished(t)
         [] OTHER -> FALSE

StopDiscoveryDart(t) ==
    /\ Request(t, "StopDiscoveryDart")
    /\ CASE pc[t] = "entry" -> CheckInstance(t)
         [] InPostResult(t) -> PostResult(t, "NC_STATUS_ERROR")
         [] pc[t] = "port" -> RecordPort(t, "arm", {})
         [] pc[t] = "arm" -> Arm(t)
         [] pc[t] = "invoke" -> Invoke(t, "none")
         [] InAwait(t) -> AwaitAdapterFinished(t)
         [] OTHER -> FALSE

RequestConnectionDart(t) ==
    /\ Request(t, "RequestConnectionDart")
    /\ CASE pc[t] = "entry" -> CheckInstance(t)
         [] InPostResult(t) -> PostResult(t, "NC_STATUS_ERROR")
         [] pc[t] = "port" -> RecordPort(t, "install", ConnectionFields)
         [] pc[t] = "install" -> InstallConnectionListener(t, "arm")
         [] pc[t] = "arm" -> Arm(t)
         [] pc[t] = "invoke" -> Invoke(t, "connection")
         [] InAwait(t) -> AwaitAdapterFinished(t)
         [] OTHER -> FALSE

AcceptConnectionDart(t) ==
    /\ Request(t, "AcceptConnectionDart")
    /\ CASE pc[t] = "entry" -> CheckInstance(t)
         [] InPostResult(t) -> PostResult(t, "NC_STATUS_ERROR")
         [] pc[t] = "port" -> RecordPort(t, "install", PayloadFields)
         [] pc[t] = "install" -> InstallPayloadListener(t, "arm")
         [] pc[t] = "arm" -> Arm(t)
         [] pc[t] = "invoke" -> Invoke(t, "payload")
         [] pc[t] = "await" -> AwaitFinished(t)
         [] OTHER -> FALSE

RejectConnectionDart(t) ==
    /\ Request(t, "RejectConnectionDart")
    /\ CASE pc[t] = "entry" -> CheckInstance(t)
         [] InPostResult(t) -> PostResult(t, "NC_STATUS_ERROR")
         [] pc[t] = "port" -> RecordPort(t, "arm", {})
         [] pc[t] = "arm" -> Arm(t)
         [] pc[t] = "invoke" -> Invoke(t, "none")
         [] pc[t] = "await" -> AwaitFinished(t)
         [] OTHER -> FALSE

DisconnectFromEndpointDart(t) ==
    /\ Request(t, "DisconnectFromEndpointDart")
    /\ CASE pc[t] = "entry" -> CheckInstance(t)
         [] InPostResult(t) -> PostResult(t, "NC_STATUS_ERROR")
         [] pc[t] = "port" -> RecordPort(t, "arm", {})
         [] pc[t] = "arm" -> Arm(t)
         [] pc[t] = "invoke" -> Invoke(t, "none")
         [] pc[t] = "await" -> AwaitFinished(t)
         [] OTHER -> FALSE

\* Mutant: only PAYLOAD_TYPE_UNKNOWN is turned away.
Unsupported_UnknownOnly(type) == type = "PAYLOAD_TYPE_UNKNOWN"

\* case PAYLOAD_TYPE_UNKNOWN: case PAYLOAD_TYPE_STREAM:
Unsupported(type) == type \in {"PAYLOAD_TYPE_UNKNOWN", "PAYLOAD_TYPE_STREAM"}

\* The switch on payload_dart.type: UNKNOWN and STREAM post
\* NC_STATUS_PAYLOADUNKNOWN through PostResult(port, ...) and break; BYTE and
\* FILE go to the engine and wait through adapter_finished.
SendPayloadDart(t) ==
    /\ Request(t, "SendPayloadDart")
    /\ CASE pc[t] = "entry" -> CheckInstance(t)
         [] pc[t] \in {"PostResult", "PostResult.post"} ->
              PostResult(t, "NC_STATUS_ERROR")
         [] pc[t] = "port" ->
              RecordPort(t,
                         IF Unsupported(cur[t].type)
                         THEN "PostResult.load" ELSE "arm",
                         {})
         [] pc[t] \in {"PostResult.load", "PostResult.store",
                       "PostResult.postalias"} ->
              PostResult(t, "NC_STATUS_PAYLOADUNKNOWN")
         [] pc[t] = "arm" -> Arm(t)
         [] pc[t] = "invoke" -> Invoke(t, "none")
         [] InAwait(t) -> AwaitAdapterFinished(t)
         [] OTHER -> FALSE

\* ------------------------------------------------- the completion callback

\* Mutant: the message always says NC_STATUS_SUCCESS.
ResultCBPost_AlwaysSuccess(i) ==
    /\ \E status \in Statuses, ok \in BOOLEAN :
         LET cb == callbacks[i]
             msg == Post(port, <<"NC_STATUS_SUCCESS">>, ok)
         IN /\ posted' = <<msg>>
            /\ callbacks' =
                 [callbacks EXCEPT ![i].phase = "posted", ![i].ok = ok]
            /\ results' =
                 IF cb.fresh THEN [results EXCEPT ![cb.owner] = Append(@, msg)]
                 ELSE results
            /\ completed' =
                 IF cb.fresh THEN [completed EXCEPT ![cb.owner] = status]
                 ELSE completed
    /\ UNCHANGED <<finished, ub, crashed>>

\* ResultCB up to the post: the one-field status message goes to whatever
\* port holds now.
ResultCBPost(i) ==
    /\ \E status \in Statuses, ok \in BOOLEAN :
         LET cb == callbacks[i]
             msg == Post(port, <<status>>, ok)
         IN /\ posted' = <<msg>>
            /\ callbacks' =
                 [callbacks EXCEPT ![i].phase = "posted", ![i].ok = ok]
            /\ results' =
                 IF cb.fresh THEN [results EXCEPT ![cb.owner] = Append(@, msg)]
                 ELSE results
            /\ completed' =
                 IF cb.fresh THEN [completed EXCEPT ![cb.owner] = status]
                 ELSE completed
    /\ UNCHANGED <<finished, ub, crashed>>

\* Mutant: the callback ends without the decrement.
ResultCBCountDown_Missing(i) ==
    /\ callbacks' = [callbacks EXCEPT ![i] = NoCallback]
    /\ posted' = <<>>
    /\ UNCHANGED <<finished, ub, crashed, results, completed>>

\* Mutant: the decrement is made only when the post succeeded.
ResultCBCountDown_OnlyIfPosted(i) ==
    /\ callbacks' = [callbacks EXCEPT ![i] = NoCallback]
    /\ posted' = <<>>
    /\ finished' =
         IF callbacks[i].ok /\ ~adapter_finished.stale
         THEN [finished EXCEPT ![adapter_finished.slot] =
                 CountDown(@, callbacks[i].owner)]
         ELSE finished
    /\ UNCHANGED <<ub, crashed, results, completed>>

\* Mutant: the decrement only wakes a caller that is already waiting on the
\* latch, and is forgotten otherwise.
ResultCBCountDown_OnlyWakesWaiter(i) ==
    /\ callbacks' = [callbacks EXCEPT ![i] = NoCallback]
    /\ posted' = <<>>
    /\ finished' =
         IF /\ ~adapter_finished.stale
            /\ \E t \in Threads :
                 pc[t] = "await.wait" /\ awaiting[t] = adapter_finished
         THEN [finished EXCEPT ![adapter_finished.slot] =
                 CountDown(@, callbacks[i].owner)]
         ELSE finished
    /\ UNCHANGED <<ub, crashed, results, completed>>

\* adapter_finished->CountDown(): on the latch adapter_finished points to
\* now.  If its owner has returned the latch is gone: the decrement may
\* crash, fall on dead memory, or hit the latch now in that stack slot.
ResultCBCountDown(i) ==
    LET cb == callbacks[i]
        who == IF cb.fresh THEN cb.owner ELSE 0 - 1
        slot == adapter_finished.slot
    IN /\ callbacks' = [callbacks EXCEPT ![i] = NoCallback]
       /\ posted' = <<>>
       /\ IF adapter_finished.stale
          THEN /\ ub' = "CountDown"
               /\ \E outcome \in {"crash", "ignored", "reused"} :
                    /\ crashed' = (outcome = "crash")
                    /\ finished' =
                         IF outcome = "reused" /\ finished[slot].live
                         THEN [finished EXCEPT ![slot] = CountDown(@, who)]
                         ELSE finished
          ELSE /\ finished' = [finished EXCEPT ![slot] = CountDown(@, who)]
               /\ UNCHANGED <<ub, crashed>>
       /\ UNCHANGED <<results, completed>>

ResultCB(i) ==
    /\ ~crashed
    /\ CASE callbacks[i].phase = "pending" -> ResultCBPost(i)
         [] callbacks[i].phase = "posted" -> ResultCBCountDown(i)
         [] OTHER -> FALSE
    /\ event' = NoEvent
    /\ UNCHANGED <<serialized, reliable, port, adapter_finished, listeners,
                   pc, cur, todo, awaiting, loaded, registered, invoked,
                   released>>
    /\ UNCHANGED file_handler

\* ------------------------------------------------------ the event callbacks

\* Mutant: a post that failed is made again.
Event_RetriesFailedPost(kind, descriptor, posts) ==
    /\ ~crashed
    /\ kind \in registered
    /\ event' = descriptor
    /\ posted' = IF posts # <<>> /\ ~posts[1].ok THEN posts \o posts ELSE posts
    /\ UNCHANGED <<serialized, reliable, port, adapter_finished, listeners,
                   finished, pc, cur, todo, awaiting, loaded, callbacks,
                   registered, ghost, ub, crashed>>
    /\ UNCHANGED file_handler

\* An event callback of a listener kind the engine was given: it reads the
\* current listener struct and posts; nothing else changes.
Event(kind, descriptor, posts) ==
    /\ ~crashed
    /\ kind \in registered
    /\ event' = descriptor
    /\ posted' = posts
    /\ UNCHANGED <<serialized, reliable, port, adapter_finished, listeners,
                   finished, pc, cur, todo, awaiting, loaded, callbacks,
                   registered, ghost, ub, crashed>>
    /\ UNCHANGED file_handler

\* The text field is the c_str() of a temporary std::string that is gone
\* before the post: the post reads the text or whatever replaced it.
TemporaryText(text) == {text, "(dangling)"}

\* [endpoint id, remote endpoint info]
ListenerInitiatedCB ==
    \E endpoint_id \in EndpointIds, info \in EndpointInfos, ok \in BOOLEAN :
      \E text \in TemporaryText(info) :
        Event("connection",
              [kind |-> "initiated", endpoint_id |-> endpoint_id, info |-> info],
              <<Post(current_connection_listener_dart.initiated_dart_port,
                     <<endpoint_id, text>>, ok)>>)

\* Mutant: the callback posts to the port of the first listener it was
\* registered with, not to the current one.
ListenerAcceptedCB_FirstBinding ==
    \E endpoint_id \in EndpointIds, ok \in BOOLEAN :
      Event("connection", [kind |-> "accepted", endpoint_id |-> endpoint_id],
            <<Post(ConnectionListenerDart(1).accepted_dart_port, <<endpoint_id>>, ok)>>)

\* the endpoint id, as a string
ListenerAcceptedCB ==
    \E endpoint_id \in EndpointIds, ok \in BOOLEAN :
      Event("connection", [kind |-> "accepted", endpoint_id |-> endpoint_id],
            <<Post(current_connection_listener_dart.accepted_dart_port, <<endpoint_id>>, ok)>>)

\* the endpoint id, as a string; status is not used
ListenerRejectedCB ==
    \E endpoint_id \in EndpointIds, status \in Statuses, ok \in BOOLEAN :
      Event("connection",
            [kind |-> "rejected", endpoint_id |-> endpoint_id, status |-> status],
            <<Post(current_connection_listener_dart.rejected_dart_port,
                   <<endpoint_id>>, ok)>>)

\* the endpoint id, as a string
ListenerDisconnectedCB ==
    \E endpoint_id \in EndpointIds, ok \in BOOLEAN :
      Event("connection", [kind |-> "disconnected", endpoint_id |-> endpoint_id],
            <<Post(current_connection_listener_dart.disconnected_dart_port, <<endpoint_id>>, ok)>>)

\* the endpoint id, as a string; medium is not used
ListenerBandwidthChangedCB ==
    \E endpoint_id \in EndpointIds, ok \in BOOLEAN :
      Event("connection", [kind |-> "bandwidth_changed", endpoint_id |-> endpoint_id],
            <<Post(current_connection_listener_dart.bandwidth_changed_dart_port, <<endpoint_id>>, ok)>>)

\* [endpoint id, endpoint info]
ListenerEndpointFoundCB ==
    \E endpoint_id \in EndpointIds, info \in EndpointInfos, ok \in BOOLEAN :
      \E text \in TemporaryText(info) :
        Event("discovery",
              [kind |-> "found", endpoint_id |-> endpoint_id, info |-> info],
              <<Post(current_discovery_listener_dart.found_dart_port,
                     <<endpoint_id, text>>, ok)>>)

\* the endpoint id, as a string
ListenerEndpointLostCB ==
    \E endpoint_id \in EndpointIds, ok \in BOOLEAN :
      Event("discovery", [kind |-> "lost", endpoint_id |-> endpoint_id],
            <<Post(current_discovery_listener_dart.lost_dart_port, <<endpoint_id>>, ok)>>)

\* the endpoint id, as a string; distance_info is not used
ListenerEndpointDistanceChangedCB ==
    \E endpoint_id \in EndpointIds, ok \in BOOLEAN :
      Event("discovery", [kind |-> "distance_changed", endpoint_id |-> endpoint_id],
            <<Post(current_discovery_listener_dart.distance_changed_dart_port, <<endpoint_id>>, ok)>>)

\* Mutant: an empty bytes payload is posted like any other.
PayloadMessages_NoSizeCheck(endpoint_id, payload, ok) ==
    CASE payload.type = "NC_PAYLOAD_TYPE_BYTES" ->
           <<Post(current_payload_listener_dart.initial_byte_info_port,
                  <<endpoint_id, payload.id,
                    [type |-> "Dart_TypedData_kUint8",
                     length |-> payload.size]>>, ok)>>
      [] payload.type = "NC_PAYLOAD_TYPE_STREAM" ->
           <<Post(current_payload_listener_dart.initial_stream_info_port,
                  <<endpoint_id, payload.id>>, ok)>>
      [] payload.type = "NC_PAYLOAD_TYPE_FILE" ->
           <<Post(current_payload_listener_dart.initial_file_info_port,
                  <<endpoint_id, payload.id, payload.offset, payload.file_name>>,
                  ok)>>
      [] OTHER -> <<>>

\* Mutant: a payload that cannot be marshalled is reported as an error on
\* the result port.
PayloadMessages_ErrorToResult(endpoint_id, payload, ok) ==
    CASE payload.type = "NC_PAYLOAD_TYPE_BYTES" /\ payload.size > 0 ->
           <<Post(current_payload_listener_dart.initial_byte_info_port,
                  <<endpoint_id, payload.id,
                    [type |-> "Dart_TypedData_kUint8",
                     length |-> payload.size]>>, ok)>>
      [] payload.type = "NC_PAYLOAD_TYPE_STREAM" ->
           <<Post(current_payload_listener_dart.initial_stream_info_port,
                  <<endpoint_id, payload.id>>, ok)>>
      [] payload.type = "NC_PAYLOAD_TYPE_FILE" ->
           <<Post(current_payload_listener_dart.initial_file_info_port,
                  <<endpoint_id, payload.id, payload.offset, payload.file_name>>,
                  ok)>>
      [] OTHER -> <<Post(port, <<"NC_STATUS_ERROR">>, ok)>>

\* The message ListenerPayloadCB builds for a payload, with the port it goes
\* to: none for an empty bytes payload or a type the switch does not know.
PayloadMessages(endpoint_id, payload, ok) ==
    CASE payload.type = "NC_PAYLOAD_TYPE_BYTES" ->
           IF payload.size = 0 THEN <<>>
           ELSE <<Post(current_payload_listener_dart.initial_byte_info_port,
                       <<endpoint_id, payload.id,
                         [type |-> "Dart_TypedData_kUint8",
                          length |-> payload.size]>>, ok)>>
      [] payload.type = "NC_PAYLOAD_TYPE_STREAM" ->
           <<Post(current_payload_listener_dart.initial_stream_info_port,
                  <<endpoint_id, payload.id>>, ok)>>
      [] payload.type = "NC_PAYLOAD_TYPE_FILE" ->
           <<Post(current_payload_listener_dart.initial_file_info_port,
                  <<endpoint_id, payload.id, payload.offset, payload.file_name>>,
                  ok)>>
      [] OTHER -> <<>>

ReceivedPayloads ==
    [type : NcPayloadTypes, id : PayloadIds, size : 0..MaxSize, offset : {0},
     file_name : FileNames]

\* A payload as the engine hands it over: size counts for bytes only.
WellFormed(payload) ==
    payload.type # "NC_PAYLOAD_TYPE_BYTES" => payload.size = 0

ListenerPayloadCB ==
    \E endpoint_id \in EndpointIds, payload \in ReceivedPayloads, ok \in BOOLEAN :
      /\ WellFormed(payload)
      /\ PayloadMessages(endpoint_id, payload, TRUE) = <<>> => ok
      /\ Event("payload",
               [kind |-> "payload", endpoint_id |-> endpoint_id,
                payload |-> payload],
               PayloadMessages(endpoint_id, payload, ok))

\* [endpoint id, payload id, bytes transferred, total bytes, status]
ListenerPayloadProgressCB ==
    \E endpoint_id \in EndpointIds, id \in PayloadIds, ok \in BOOLEAN :
      \E total_bytes \in {MaxSize}, bytes_transferred \in {0, MaxSize},
         status \in {"NC_PAYLOAD_PROGRESS_INFO_STATUS_IN_PROGRESS"} :
        Event("payload",
              [kind |-> "progress", endpoint_id |-> endpoint_id, id |-> id,
               bytes_transferred |-> bytes_transferred,
               total_bytes |-> total_bytes, status |-> status],
              <<Post(current_payload_listener_dart.payload_progress_dart_port,
                     <<endpoint_id, id, bytes_transferred, total_bytes, status>>,
                     ok)>>)

\* -------------------------------------------------------- NearbyFileHandler

\* A step of the file handler: the bridge is not involved.
FileStep ==
    /\ UNCHANGED <<serialized, reliable, port, adapter_finished, listeners,
                   finished, pc, cur, todo, awaiting, loaded, callbacks,
                   registered, posted, event, ghost, ub, crashed>>

\* sequenced_task_runner_->PostTask(task): the task joins the tasks posted.
PostTask(kind, file_paths) ==
    /\ submitted < MaxTasks
    /\ submitted' = submitted + 1
    /\ sequenced_task_runner_' =
         Append(sequenced_task_runner_,
                [id |-> submitted + 1, kind |-> kind, file_paths |-> file_paths])
    /\ UNCHANGED <<workers, disk, held, log>>
    /\ FileStep

OpenFiles == \E file_paths \in PathLists : PostTask("OpenFiles", file_paths)

GetUniquePath == \E file_path \in Paths : PostTask("GetUniquePath", <<file_path>>)

DeleteFilesFromDisk ==
    \E file_paths \in PathLists : PostTask("DeleteFilesFromDisk", file_paths)

\* A thread of the task runner that has nothing to do takes the task posted
\* first and begins it.
RunTask(w) ==
    /\ workers[w].pc = "idle"
    /\ sequenced_task_runner_ # <<>>
    /\ LET task == Head(sequenced_task_runner_)
           begun == [id |-> task.id, kind |-> task.kind,
                     file_paths |-> task.file_paths, pc |-> "begin", i |-> 1,
                     value |-> <<>>]
       IN /\ workers' = [workers EXCEPT ![w] = begun]
          /\ log' = Append(log, Line(begun, "begin", "", 0, 0, TRUE, <<>>))
    /\ sequenced_task_runner_' = Tail(sequenced_task_runner_)
    /\ UNCHANGED <<submitted, disk, held>>
    /\ FileStep

\* The task's lambda has returned: the thread is free again.
TaskDone(w) ==
    /\ workers[w].pc = "end"
    /\ workers' = [workers EXCEPT ![w] = Idle]
    /\ log' = Append(log, Line(workers[w], "end", "", 0, 0, TRUE, <<>>))
    /\ UNCHANGED <<sequenced_task_runner_, submitted, disk, held>>
    /\ FileStep

\* Mutant: a path that does not exist is skipped and the rest is opened.
DoOpenFiles_SkipsMissing(file_paths) ==
    LET RECURSIVE Open(_, _)
        Open(i, files) ==
          IF i > Len(file_paths) THEN files
          ELSE IF file_paths[i] \notin disk THEN Open(i + 1, files)
          ELSE Open(i + 1, Append(files, <<FileSize(file_paths[i]), file_paths[i]>>))
    IN Open(1, <<>>)

\* DoOpenFiles: (size, path) of every path in order, or nothing at all as
\* soon as one path does not exist or has a negative size.
DoOpenFiles(file_paths) ==
    LET RECURSIVE Open(_, _)
        Open(i, files) ==
          IF i > Len(file_paths) THEN files
          ELSE IF file_paths[i] \notin disk THEN <<>>
          ELSE IF FileSize(file_paths[i]) < 0 THEN <<>>
          ELSE Open(i + 1, Append(files, <<FileSize(file_paths[i]), file_paths[i]>>))
    IN Open(1, <<>>)

\* return path;
GenerateUniquePath(path) == path

\* callback(value), the last statement of a task's lambda.
Callback(w, value) ==
    /\ workers' = [workers EXCEPT ![w].pc = "end"]
    /\ log' = Append(log, Line(workers[w], "callback", "", 0, 0, TRUE, value))
    /\ UNCHANGED <<sequenced_task_runner_, submitted, disk, held>>

\* The lambda OpenFiles posts.
OpenFilesTask(w) ==
    /\ workers[w].kind = "OpenFiles"
    /\ CASE workers[w].pc = "begin" ->
              /\ workers' =
                   [workers EXCEPT ![w].pc = "callback",
                                   ![w].value = DoOpenFiles(workers[w].file_paths)]
              /\ UNCHANGED <<sequenced_task_runner_, submitted, disk, held, log>>
         [] workers[w].pc = "callback" -> Callback(w, workers[w].value)
         [] OTHER -> FALSE
    /\ FileStep

\* The lambda GetUniquePath posts.
GetUniquePathTask(w) ==
    /\ workers[w].kind = "GetUniquePath"
    /\ CASE workers[w].pc = "begin" ->
              /\ workers' =
                   [workers EXCEPT
                      ![w].pc = "callback",
                      ![w].value = <<GenerateUniquePath(workers[w].file_paths[1])>>]
              /\ UNCHANGED <<sequenced_task_runner_, submitted, disk, held, log>>
         [] workers[w].pc = "callback" -> Callback(w, workers[w].value)
         [] OTHER -> FALSE
    /\ FileStep

\* RemoveFile(file): true when std::filesystem::remove removed the file;
\* false when it removed nothing or threw, as it does for a file that
\* another process holds.
RemoveFile(file) == file \in disk /\ file \notin held

\* Mutant: the exception thrown for a file another process holds is not
\* caught.
Escapes_Uncaught(file) == file \in disk /\ file \in held

\* Whether an exception of std::filesystem::remove leaves RemoveFile: the
\* handlers catch (std::exception) and catch (...) let none through.
Escapes(file) == FALSE

\* One call of RemoveFile on the path the loop is at, as attempt n.
Attempt(w, n) ==
    LET file_path == workers[w].file_paths[workers[w].i]
    IN /\ log' = Append(log, Line(workers[w], "remove", file_path, n, 0,
                                  RemoveFile(file_path), <<>>))
       /\ disk' = IF RemoveFile(file_path) THEN disk \ {file_path} ELSE disk
       /\ UNCHANGED <<sequenced_task_runner_, submitted, held>>

\* absl::SleepFor(absl::Seconds(seconds))
SleepFor(w, seconds, next) ==
    /\ workers' = [workers EXCEPT ![w].pc = next]
    /\ log' = Append(log, Line(workers[w], "sleep", "", 0, seconds, TRUE, <<>>))
    /\ UNCHANGED <<sequenced_task_runner_, submitted, disk, held>>

\* Mutant: the task goes straight to the files.
FirstWait_Skipped(w) ==
    /\ workers' = [workers EXCEPT ![w].pc = "exists"]
    /\ UNCHANGED <<sequenced_task_runner_, submitted, disk, held, log>>

\* wait 1 second to make the file being released from another process
FirstWait(w) == SleepFor(w, GracePeriod, "exists")

\* for (const auto& file_path : file_paths) with the check
\* if (!std::filesystem::exists(file_path)) continue;
NextPath(w) ==
    /\ workers' =
         [workers EXCEPT
            ![w].pc = IF workers[w].i > Len(workers[w].file_paths) THEN "callback"
                      ELSE IF workers[w].file_paths[workers[w].i] \notin disk
                      THEN "exists" ELSE "remove",
            ![w].i = IF workers[w].i <= Len(workers[w].file_paths)
                        /\ workers[w].file_paths[workers[w].i] \notin disk
                     THEN @ + 1 ELSE @]
    /\ UNCHANGED <<sequenced_task_runner_, submitted, disk, held, log>>

\* if (RemoveFile(file_path)) { log } else { wait and try once more }
FirstAttempt(w) ==
    /\ Attempt(w, 1)
    /\ workers' =
         [workers EXCEPT
            ![w].pc = IF Escapes(workers[w].file_paths[workers[w].i])
                      THEN "terminated"
                      ELSE IF RemoveFile(workers[w].file_paths[workers[w].i])
                      THEN "exists" ELSE "sleep",
            ![w].i = IF RemoveFile(workers[w].file_paths[workers[w].i])
                     THEN @ + 1 ELSE @]

\* Mutant: a second attempt that fails is followed by another wait.
SecondAttempt_UntilRemoved(w) ==
    /\ Attempt(w, 2)
    /\ workers' =
         [workers EXCEPT
            ![w].pc = IF RemoveFile(workers[w].file_paths[workers[w].i])
                      THEN "exists" ELSE "sleep",
            ![w].i = IF RemoveFile(workers[w].file_paths[workers[w].i])
                     THEN @ + 1 ELSE @]

\* if (RemoveFile(file_path)) { log } else { log the failure }: either way
\* the loop goes on to the next path.
SecondAttempt(w) ==
    /\ Attempt(w, 2)
    /\ workers' =
         [workers EXCEPT
            ![w].pc = IF Escapes(workers[w].file_paths[workers[w].i])
                      THEN "terminated" ELSE "exists",
            ![w].i = @ + 1]

\* The lambda DeleteFilesFromDisk posts.
DeleteFilesFromDiskTask(w) ==
    /\ workers[w].kind = "DeleteFilesFromDisk"
    /\ CASE workers[w].pc = "begin" -> FirstWait(w)
         [] workers[w].pc = "exists" -> NextPath(w)
         [] workers[w].pc = "remove" -> FirstAttempt(w)
         [] workers[w].pc = "sleep" -> SleepFor(w, RetryDelay, "retry")
         [] workers[w].pc = "retry" -> SecondAttempt(w)
         [] workers[w].pc = "callback" -> Callback(w, <<>>)
         [] OTHER -> FALSE
    /\ FileStep

\* Another process lets go of a file it held.
Release(path) ==
    /\ path \in held
    /\ held' = held \ {path}
    /\ UNCHANGED <<sequenced_task_runner_, workers, submitted, disk, log>>
    /\ FileStep

\* ------------------------------------------------------------ specification

\* The steps of the bridge: the request functions on the caller threads and
\* the completion callback on the engine's.
Bridge ==
    \/ \E t \in Threads : EnableBleV2Dart(t)
    \/ \E t \in Threads : StartAdvertisingDart(t)
    \/ \E t \in Threads : StopAdvertisingDart(t)
    \/ \E t \in Threads : StartDiscoveryDart(t)
    \/ \E t \in Threads : StopDiscoveryDart(t)
    \/ \E t \in Threads : RequestConnectionDart(t)
    \/ \E t \in Threads : AcceptConnectionDart(t)
    \/ \E t \in Threads : RejectConnectionDart(t)
    \/ \E t \in Threads : DisconnectFromEndpointDart(t)
    \/ \E t \in Threads : SendPayloadDart(t)
    \/ \E i \in 1..MaxPending : ResultCB(i)

Events ==
    \/ ListenerInitiatedCB
    \/ ListenerAcceptedCB
    \/ ListenerRejectedCB
    \/ ListenerDisconnectedCB
    \/ ListenerBandwidthChangedCB
    \/ ListenerEndpointFoundCB
    \/ ListenerEndpointLostCB
    \/ ListenerEndpointDistanceChangedCB
    \/ ListenerPayloadCB
    \/ ListenerPayloadProgressCB

\* Serialized use: requests of every kind, from either thread, one at a
\* time, for ever; the engine may be reliable or not.
InitSerial == Init /\ serialized /\ disk = {}

Next ==
    \/ \E t \in Threads : Call(t, Requests(Instances, ResultPorts, ListenerVersions))
    \/ \E t \in Threads : Forget(t)
    \/ Bridge

Spec == InitSerial /\ [][Next]_vars

\* Two threads, one request each, with or without waiting for each other:
\* thread t passes result port t and version t of a listener struct.
InitRace == Init /\ reliable /\ disk = {}

NextRace ==
    \/ \E t \in Threads : Call(t, Requests(Instances, {t}, {t}))
    \/ Bridge

SpecRace == InitRace /\ [][NextRace]_vars

\* Event traffic: the engine runs event callbacks at any time while one
\* thread issues requests on one result port, one at a time.
InitEvents == Init /\ serialized /\ reliable /\ disk = {}

NextEvents ==
    \/ Call(1, Requests({"instance"}, {1}, ListenerVersions))
    \/ Forget(1)
    \/ Bridge
    \/ Events

SpecEvents == InitEvents /\ [][NextEvents]_vars

\* The file handler on its own: tasks are posted at any time while the
\* task runner works, and other processes let go of files.
InitFile == Init /\ serialized /\ reliable

NextFile ==
    \/ OpenFiles
    \/ GetUniquePath
    \/ DeleteFilesFromDisk
    \/ \E w \in 1..RunnerThreads : RunTask(w)
    \/ \E w \in 1..RunnerThreads : OpenFilesTask(w)
    \/ \E w \in 1..RunnerThreads : GetUniquePathTask(w)
    \/ \E w \in 1..RunnerThreads : DeleteFilesFromDiskTask(w)
    \/ \E w \in 1..RunnerThreads : TaskDone(w)
    \/ \E path \in Paths : Release(path)

SpecFile == InitFile /\ [][NextFile]_vars

\* A thread of the task runner that can go on does.
RunnerStep(w) ==
    \/ RunTask(w)
    \/ OpenFilesTask(w)
    \/ GetUniquePathTask(w)
    \/ DeleteFilesFromDiskTask(w)
    \/ TaskDone(w)

FairSpecFile == SpecFile /\ \A w \in 1..RunnerThreads : WF_vars(RunnerStep(w))

\* A caller thread that can take a step takes one, and the engine runs a
\* completion callback it holds.
Step(t) ==
    \/ EnableBleV2Dart(t)
    \/ StartAdvertisingDart(t)
    \/ StopAdvertisingDart(t)
    \/ StartDiscoveryDart(t)
    \/ StopDiscoveryDart(t)
    \/ RequestConnectionDart(t)
    \/ AcceptConnectionDart(t)
    \/ RejectConnectionDart(t)
    \/ DisconnectFromEndpointDart(t)
    \/ SendPayloadDart(t)

Fairness ==
    /\ \A t \in Threads : WF_vars(Step(t))
    /\ \A i \in 1..MaxPending : WF_vars(ResultCB(i))

FairSpec == Spec /\ Fairness

\* ------------------------------------------------------------------- claims

Returned(t) == pc[t] = "returned"
InFlight(t) == pc[t] \notin {"idle", "returned"}
Blocking(t) == pc[t] \in {"arm", "invoke", "await", "await.wait"}
NullRequest(t) == cur[t].op # "none" /\ cur[t].instance = "NULL"

\* C1: a request of any kind called with a null instance never invokes the
\* engine operation, and by its return exactly one message has been posted
\* for it: NC_STATUS_ERROR, to the result channel it was given.
C1_NullInstanceNeverReachesEngine ==
    \A t \in Threads :
      NullRequest(t) =>
        /\ ~invoked[t]
        /\ Returned(t) =>
             /\ Len(results[t]) = 1
             /\ results[t][1].chan = cur[t].result_cb
             /\ results[t][1].fields = <<"NC_STATUS_ERROR">>

\* C2: no step of a request called with a null instance enters the blocking
\* part of its function or changes the recorded result channel, the current
\* completion signal or any of the three listener bindings.
C2_NullInstanceLeavesGateUntouched ==
    [][\A t \in Threads :
         (NullRequest(t) /\ pc'[t] # pc[t])
           => /\ ~Blocking(t)'
              /\ port' = port
              /\ adapter_finished' = adapter_finished
              /\ listeners' = listeners]_vars

\* C3: with requests issued one at a time and an engine that invokes each
\* completion callback exactly once, a request with a non-null instance
\* that went to the engine has, when it returns, exactly one result message
\* posted for it: to the result channel it was given, its one field the
\* status the engine passed to the completion callback.  (Posted: handed to
\* Dart_PostCObject_DL, whatever that returned.)
C3_OneResultOnOwnChannel ==
    \A t \in Threads :
      (serialized /\ reliable /\ Returned(t) /\ cur[t].instance = "instance"
         /\ invoked[t])
        => /\ Len(results[t]) = 1
           /\ results[t][1].chan = cur[t].result_cb
           /\ completed[t] \in Statuses
           /\ results[t][1].fields = <<completed[t]>>

\* A request on port 2 that follows one on port 1 has returned with the
\* engine's NC_STATUS_ERROR.
C3_Witness ==
    \E t \in Threads :
      /\ serialized /\ reliable /\ Returned(t) /\ invoked[t]
      /\ cur[t].instance = "instance"
      /\ cur[t].result_cb = 2
      /\ completed[t] = "NC_STATUS_ERROR"
      /\ \E u \in Threads : adapter_finished = [slot |-> u, stale |-> TRUE]

\* C4: with requests issued one at a time and an engine that invokes the
\* completion callback of every operation it is given, every request that
\* has been called returns.
C4_EveryRequestReturns ==
    \A t \in Threads : (serialized /\ reliable /\ InFlight(t)) ~> Returned(t)

\* A caller that was blocked on its latch with the completion callback still
\* to come has returned, released by that callback.
C4_Witness ==
    \E t \in Threads :
      /\ serialized /\ reliable /\ Returned(t) /\ invoked[t]
      /\ released[t] = t
      /\ cur[t].op = "AcceptConnectionDart"

\* The completion callback of t's request has run to its end.
CallbackDone(t) ==
    /\ completed[t] # "none"
    /\ \A i \in 1..MaxPending : ~(callbacks[i].owner = t /\ callbacks[i].fresh)

\* C5: once the completion callback of a request has run, the latch its
\* caller waits on is at zero (or the caller is already back) even when the
\* callback's post of the result message failed: the caller is released just
\* as after a post that succeeded.
C5_PostFailureStillReleases ==
    \A t \in Threads :
      (CallbackDone(t) /\ Len(results[t]) = 1 /\ ~results[t][1].ok)
        => \/ Returned(t)
           \/ /\ pc[t] \in {"await", "await.wait"}
              /\ finished[t].count = 0
              /\ pc[t] = "await.wait" => awaiting[t] = LatchPtr(t)

\* A request whose result message could not be posted has returned.
C5_Witness ==
    \E t \in Threads :
      /\ Returned(t) /\ CallbackDone(t)
      /\ Len(results[t]) = 1 /\ ~results[t][1].ok
      /\ released[t] = t

\* C6: a request that blocked on the completion signal returns only after
\* the completion callback of that same request released the latch it
\* waited on, never the callback of another request.
C6_ReleasedOnlyByOwnCallback ==
    \A t \in Threads : (Returned(t) /\ invoked[t]) => released[t] = t

\* C7: with two requests on different result channels in flight together,
\* the result message of a request goes to that request's result channel.
C7_ResultOnOwnChannel ==
    \A t \in Threads :
      completed[t] # "none"
        => /\ Len(results[t]) = 1
           /\ results[t][1].chan = cur[t].result_cb

\* C8: no completion callback decrements a latch whose owning call has
\* already returned.
C8_NoCountDownAfterReturn == ub # "CountDown"

UnsupportedSend(t) ==
    /\ cur[t].op = "SendPayloadDart"
    /\ cur[t].type \in {"PAYLOAD_TYPE_UNKNOWN", "PAYLOAD_TYPE_STREAM"}

\* C9 as stated: every send-payload request of type stream or unknown leaves
\* the engine alone, does not block, and has NC_STATUS_PAYLOADUNKNOWN posted
\* to its result channel.
C9_UnsupportedPayloadAlwaysUnknown ==
    \A t \in Threads :
      UnsupportedSend(t)
        => /\ ~invoked[t]
           /\ ~Blocking(t)
           /\ Returned(t) =>
                /\ Len(results[t]) = 1
                /\ results[t][1].fields = <<"NC_STATUS_PAYLOADUNKNOWN">>
                /\ results[t][1].chan = cur[t].result_cb

\* C9, amended: a send-payload request of type stream or unknown with a
\* non-null instance leaves the engine alone, does not block, and has one
\* message posted for it, NC_STATUS_PAYLOADUNKNOWN, to the channel the shared
\* result-channel field holds at the post: the request's own channel when
\* requests are issued one at a time, and the channel of some request in any
\* case.
C9_UnsupportedPayloadRejected ==
    \A t \in Threads :
      (UnsupportedSend(t) /\ cur[t].instance = "instance")
        => /\ ~invoked[t]
           /\ ~Blocking(t)
           /\ Returned(t) =>
                /\ Len(results[t]) = 1
                /\ results[t][1].fields = <<"NC_STATUS_PAYLOADUNKNOWN">>
                /\ results[t][1].chan \in
                     {cur[u].result_cb : u \in {v \in Threads : cur[v].op # "none"}}
                /\ serialized => results[t][1].chan = cur[t].result_cb

\* A stream payload was turned away on the sender's own channel.
C9_Witness ==
    \E t \in Threads :
      /\ UnsupportedSend(t) /\ cur[t].instance = "instance"
      /\ cur[t].type = "PAYLOAD_TYPE_STREAM"
      /\ Returned(t)
      /\ Len(results[t]) = 1
      /\ results[t][1].chan = cur[t].result_cb

BytesEvent ==
    /\ event.kind = "payload"
    /\ event.payload.type = "NC_PAYLOAD_TYPE_BYTES"

\* C10: the callback for a received bytes payload posts nothing when the
\* payload is empty, and otherwise exactly one message, to the initial-byte
\* port of an installed payload listener, with a buffer of the payload's
\* length.
C10_BytesPostedUnlessEmpty ==
    BytesEvent =>
      /\ event.payload.size = 0 => posted = <<>>
      /\ event.payload.size >= 1 =>
           /\ Len(posted) = 1
           /\ posted[1].chan =
                current_payload_listener_dart.initial_byte_info_port
           /\ posted[1].chan \in
                {PayloadListenerDart(v).initial_byte_info_port :
                   v \in ListenerVersions}
           /\ Len(posted[1].fields) = 3
           /\ posted[1].fields[3].length = event.payload.size

\* A bytes payload of the largest size went out on the second listener's port.
C10_Witness ==
    /\ BytesEvent
    /\ event.payload.size = MaxSize
    /\ Len(posted) = 1
    /\ posted[1].chan = PayloadListenerDart(2).initial_byte_info_port
    /\ posted[1].fields[3].length = MaxSize

\* The fields the table of event layouts gives for an event.
Layout(e) ==
    CASE e.kind \in {"initiated", "found"} -> <<e.endpoint_id, e.info>>
      [] e.kind = "progress" ->
           <<e.endpoint_id, e.id, e.bytes_transferred, e.total_bytes, e.status>>
      [] e.kind = "payload" /\ e.payload.type = "NC_PAYLOAD_TYPE_BYTES" ->
           <<e.endpoint_id, e.payload.id,
             [type |-> "Dart_TypedData_kUint8", length |-> e.payload.size]>>
      [] e.kind = "payload" /\ e.payload.type = "NC_PAYLOAD_TYPE_STREAM" ->
           <<e.endpoint_id, e.payload.id>>
      [] e.kind = "payload" /\ e.payload.type = "NC_PAYLOAD_TYPE_FILE" ->
           <<e.endpoint_id, e.payload.id, e.payload.offset, e.payload.file_name>>
      [] OTHER -> <<e.endpoint_id>>

\* The events the table covers, connection-rejected aside.
Tabled(e) ==
    /\ e.kind \notin {"none", "rejected"}
    /\ e.kind = "payload" =>
         \/ e.payload.type = "NC_PAYLOAD_TYPE_BYTES" /\ e.payload.size >= 1
         \/ e.payload.type \in {"NC_PAYLOAD_TYPE_STREAM", "NC_PAYLOAD_TYPE_FILE"}

\* C11: for every event kind of the table the callback posts one message
\* whose fields are, in number and order, the ones the table gives for the
\* event: (endpoint id, remote endpoint info) for initiated, (endpoint id,
\* endpoint info) for found, (endpoint id, payload id, buffer) for bytes, and
\* so on.
C11_MessageHasTableLayout ==
    Tabled(event) => /\ Len(posted) = 1
                     /\ posted[1].fields = Layout(event)

\* C12: the message for a connection-rejected event carries the endpoint id
\* followed by the status the engine passed to the callback.
C12_RejectedCarriesStatus ==
    event.kind = "rejected"
      => /\ Len(posted) = 1
         /\ posted[1].fields = <<event.endpoint_id, event.status>>

\* The engine call of t's request came back without a completion callback
\* scheduled for it.
Refused(t) ==
    /\ invoked[t]
    /\ completed[t] = "none"
    /\ \A i \in 1..MaxPending : ~(callbacks[i].owner = t /\ callbacks[i].fresh)

\* C13: when the engine call returns without scheduling the completion
\* callback, the request does not wait on the latch, and when it has returned
\* an error status is on its result channel.
C13_RefusalSurfacedWithoutWaiting ==
    \A t \in Threads :
      Refused(t)
        => /\ ~InAwait(t)
           /\ Returned(t) =>
                /\ Len(results[t]) = 1
                /\ results[t][1].chan = cur[t].result_cb
                /\ results[t][1].fields = <<"NC_STATUS_ERROR">>

ConnectionBindings ==
    {ZeroListener(ConnectionFields)} \cup
      {ConnectionListenerDart(v) : v \in ListenerVersions}
DiscoveryBindings ==
    {ZeroListener(DiscoveryFields)} \cup
      {DiscoveryListenerDart(v) : v \in ListenerVersions}
PayloadBindings ==
    {ZeroListener(PayloadFields)} \cup
      {PayloadListenerDart(v) : v \in ListenerVersions}

ConnectionEvents ==
    {"initiated", "accepted", "rejected", "disconnected", "bandwidth_changed"}
DiscoveryEvents == {"found", "lost", "distance_changed"}
PayloadEvents == {"payload", "progress"}

\* C14: the binding an event callback looks its channel up in is a complete
\* one, the old or the new, never a mixture of the two.
C14_EventsSeeWholeBinding ==
    /\ event.kind \in ConnectionEvents
         => current_connection_listener_dart \in ConnectionBindings
    /\ event.kind \in DiscoveryEvents
         => current_discovery_listener_dart \in DiscoveryBindings
    /\ event.kind \in PayloadEvents
         => current_payload_listener_dart \in PayloadBindings

\* C15: a step of a request changes the connection binding only in
\* StartAdvertisingDart and RequestConnectionDart, the discovery binding only
\* in StartDiscoveryDart, the payload binding only in AcceptConnectionDart;
\* every other request leaves all three as they were.
C15_BindingsChangeOnlyByTheirRequests ==
    [][\A t \in Threads :
         (pc'[t] # pc[t] \/ todo'[t] # todo[t])
           => /\ cur[t].op \notin {"StartAdvertisingDart", "RequestConnectionDart"}
                   => current_connection_listener_dart' =
                        current_connection_listener_dart
              /\ cur[t].op # "StartDiscoveryDart"
                   => current_discovery_listener_dart' =
                        current_discovery_listener_dart
              /\ cur[t].op # "AcceptConnectionDart"
                   => current_payload_listener_dart' =
                        current_payload_listener_dart]_vars

\* Three bindings installed by earlier requests are still there after a
\* completed StopDiscoveryDart.
C15_Witness ==
    \E t \in Threads :
      /\ Returned(t) /\ invoked[t]
      /\ cur[t].op = "StopDiscoveryDart"
      /\ current_connection_listener_dart = ConnectionListenerDart(2)
      /\ current_discovery_listener_dart = DiscoveryListenerDart(1)
      /\ current_payload_listener_dart = PayloadListenerDart(2)

\* The port of the installed binding that an event of this kind goes to.
EventPort(e) ==
    CASE e.kind = "initiated" -> current_connection_listener_dart.initiated_dart_port
      [] e.kind = "accepted" -> current_connection_listener_dart.accepted_dart_port
      [] e.kind = "rejected" -> current_connection_listener_dart.rejected_dart_port
      [] e.kind = "disconnected" ->
           current_connection_listener_dart.disconnected_dart_port
      [] e.kind = "bandwidth_changed" ->
           current_connection_listener_dart.bandwidth_changed_dart_port
      [] e.kind = "found" -> current_discovery_listener_dart.found_dart_port
      [] e.kind = "lost" -> current_discovery_listener_dart.lost_dart_port
      [] e.kind = "distance_changed" ->
           current_discovery_listener_dart.distance_changed_dart_port
      [] e.kind = "progress" ->
           current_payload_listener_dart.payload_progress_dart_port
      [] e.kind = "payload" /\ e.payload.type = "NC_PAYLOAD_TYPE_BYTES" ->
           current_payload_listener_dart.initial_byte_info_port
      [] e.kind = "payload" /\ e.payload.type = "NC_PAYLOAD_TYPE_STREAM" ->
           current_payload_listener_dart.initial_stream_info_port
      [] OTHER -> current_payload_listener_dart.initial_file_info_port

\* The ports of the listeners of version v, all kinds together.
PortsOf(v) ==
    {ConnectionListenerDart(v)[f] : f \in ConnectionFields} \cup
    {DiscoveryListenerDart(v)[f] : f \in DiscoveryFields} \cup
    {PayloadListenerDart(v)[f] : f \in PayloadFields}

\* The binding an event of this kind is looked up in is wholly version v.
Installed(e, v) ==
    \/ e.kind \in ConnectionEvents
         /\ current_connection_listener_dart = ConnectionListenerDart(v)
    \/ e.kind \in DiscoveryEvents
         /\ current_discovery_listener_dart = DiscoveryListenerDart(v)
    \/ e.kind \in PayloadEvents
         /\ current_payload_listener_dart = PayloadListenerDart(v)

\* C16: an event message goes to the port that the binding installed when
\* the callback runs holds for the event's kind; once a binding of version v
\* is in place, the message goes to a port of v and to no port of a binding
\* that v superseded.
C16_EventGoesToInstalledBinding ==
    (event.kind # "none" /\ posted # <<>>)
      => /\ Len(posted) = 1
         /\ posted[1].chan = EventPort(event)
         /\ \A v \in ListenerVersions :
              Installed(event, v)
                => /\ posted[1].chan \in PortsOf(v)
                   /\ \A u \in ListenerVersions \ {v} :
                        posted[1].chan \notin PortsOf(u)

\* After RequestConnectionDart installed the second connection listener over
\* an earlier one, an accepted event went to the second listener's port.
C16_Witness ==
    /\ event.kind = "accepted"
    /\ Returned(1) /\ cur[1].op = "RequestConnectionDart" /\ cur[1].listener = 2
    /\ current_connection_listener_dart = ConnectionListenerDart(2)
    /\ Len(posted) = 1
    /\ posted[1].chan = ConnectionListenerDart(2).accepted_dart_port

\* The lines of the record that say `what` about task id.
Lines(id, what) == {k \in 1..Len(log) : log[k].id = id /\ log[k].what = what}

Busy == {w \in 1..RunnerThreads : workers[w].pc # "idle"}

\* C17: the tasks posted to the file handler begin and end in the order they
\* were posted: when a task begins, every task posted before it has ended,
\* callback, waits and retries included, and no two tasks run at once.
C17_TasksRunInSubmissionOrder ==
    /\ Cardinality(Busy) <= 1
    /\ \A k \in 1..Len(log) :
         log[k].what = "begin"
           => \A id \in 1..(log[k].id - 1) :
                \E j \in 1..(k - 1) : log[j].id = id /\ log[j].what = "end"

\* A delete task that had to wait for its second attempt ended before the
\* task posted after it began.
C17_Witness ==
    \E j, k \in 1..Len(log) :
      /\ j < k
      /\ log[j].id = 1 /\ log[j].what = "sleep" /\ log[j].seconds = RetryDelay
      /\ log[k].id = 2 /\ log[k].what = "end"

\* What OpenFiles is to deliver for a path list on a file system.
OpenResult(file_paths, files) ==
    IF \E i \in 1..Len(file_paths) : file_paths[i] \notin files THEN <<>>
    ELSE [i \in 1..Len(file_paths) |-> <<FileSize(file_paths[i]), file_paths[i]>>]

\* C18: the callback of an OpenFiles task is invoked once, and the result it
\* is given is empty when a path of the list does not exist and otherwise
\* one (size, path) entry per path of the list, in the order of the list.
C18_OpenFilesAllOrNothing ==
    /\ \A k \in 1..Len(log) :
         (log[k].kind = "OpenFiles" /\ log[k].what = "callback")
           => log[k].value = OpenResult(log[k].file_paths, log[k].disk)
    /\ \A k \in 1..Len(log) :
         log[k].kind = "OpenFiles"
           => /\ Cardinality(Lines(log[k].id, "callback")) <= 1
              /\ log[k].what = "end"
                   => Cardinality(Lines(log[k].id, "callback")) = 1

\* One OpenFiles task delivered two entries and another, with a missing
\* path after an existing one, delivered none.
C18_Witness ==
    \E j, k \in 1..Len(log) :
      /\ log[j].kind = "OpenFiles" /\ log[j].what = "callback"
      /\ Len(log[j].value) = 2
      /\ log[k].kind = "OpenFiles" /\ log[k].what = "callback"
      /\ Len(log[k].file_paths) = 2
      /\ log[k].file_paths[1] \in log[k].disk
      /\ log[k].file_paths[2] \notin log[k].disk
      /\ log[k].value = <<>>

Range(seq) == {seq[i] : i \in 1..Len(seq)}

\* C19: a DeleteFilesFromDisk task whose paths all exist and are held by no
\* other process when it begins has removed them all when it ends and has
\* invoked its callback exactly once; and no delete task attempts a removal
\* or invokes its callback before its wait of GracePeriod seconds.
C19_DeleteRemovesAllAfterGracePeriod ==
    /\ \A k \in 1..Len(log) :
         (log[k].kind = "DeleteFilesFromDisk" /\ log[k].what \in {"remove", "callback"})
           => \E j \in 1..(k - 1) :
                /\ log[j].id = log[k].id
                /\ log[j].what = "sleep" /\ log[j].seconds = GracePeriod
    /\ \A b, e \in 1..Len(log) :
         ( /\ log[b].kind = "DeleteFilesFromDisk" /\ log[b].what = "begin"
           /\ Range(log[b].file_paths) \subseteq log[b].disk \ log[b].held
           /\ log[e].id = log[b].id /\ log[e].what = "end" )
           => /\ Range(log[b].file_paths) \cap log[e].disk = {}
              /\ Range(log[b].file_paths) \cap disk = {}
              /\ Cardinality(Lines(log[b].id, "callback")) = 1

\* A delete task removed two existing files.
C19_Witness ==
    \E b, e \in 1..Len(log) :
      /\ log[b].kind = "DeleteFilesFromDisk" /\ log[b].what = "begin"
      /\ Len(log[b].file_paths) = 2
      /\ log[b].disk = Paths /\ log[b].held = {}
      /\ Range(log[b].file_paths) = Paths
      /\ log[e].id = log[b].id /\ log[e].what = "end"
      /\ disk = {}

Removal(k) == log[k].kind = "DeleteFilesFromDisk" /\ log[k].what = "remove"

\* C20 as stated: a delete task makes at most two delete attempts per path.
C20_AtMostTwoAttemptsPerPath ==
    \A id \in 1..submitted, path \in Paths :
      Cardinality({k \in Lines(id, "remove") : log[k].path = path}) <= 2

\* C20, amended: a delete task makes at most two delete attempts per entry
\* of its path list.  An entry whose path is absent when checked gets none; a
\* first attempt that succeeds is the only one and no wait of RetryDelay
\* follows it; a first attempt that fails is followed by the wait of
\* RetryDelay seconds and one second attempt, and whether that one succeeds
\* or fails the task makes no third.
C20_AtMostTwoAttemptsPerEntry ==
    \A k \in 1..Len(log) :
      Removal(k)
        => /\ log[k].path \in log[k].disk
           /\ log[k].n \in {1, 2}
           /\ Cardinality({j \in Lines(log[k].id, "remove") : log[j].i = log[k].i}) <= 2
           /\ (log[k].n = 1 /\ log[k].ok /\ k < Len(log))
                => /\ log[k + 1].what # "sleep"
                   /\ ~(Removal(k + 1) /\ log[k + 1].id = log[k].id
                          /\ log[k + 1].i = log[k].i)
           /\ (log[k].n = 1 /\ ~log[k].ok /\ k < Len(log))
                => /\ log[k + 1].id = log[k].id
                   /\ log[k + 1].what = "sleep"
                   /\ log[k + 1].seconds = RetryDelay
           /\ log[k].n = 2
                => /\ k > 2
                   /\ log[k - 1].what = "sleep" /\ log[k - 1].seconds = RetryDelay
                   /\ Removal(k - 2) /\ log[k - 2].n = 1 /\ ~log[k - 2].ok
                   /\ log[k - 2].id = log[k].id /\ log[k - 2].i = log[k].i
                   /\ k < Len(log)
                        => /\ log[k + 1].what # "sleep"
                           /\ ~(Removal(k + 1) /\ log[k + 1].id = log[k].id
                                  /\ log[k + 1].i = log[k].i)

\* A file that was let go of during the longer wait was removed at the
\* second attempt, and a file still held was given up after its second.
C20_Witness ==
    \E j, k \in 1..Len(log) :
      /\ Removal(j) /\ log[j].n = 2 /\ log[j].ok
      /\ Removal(k) /\ log[k].n = 2 /\ ~log[k].ok
      /\ \E e \in 1..Len(log) : e > k /\ log[e].id = log[k].id /\ log[e].what = "end"

Ended(id) == Lines(id, "end") # {}

\* Every entry of an ended delete task's list is gone from the disk or was
\* given up after a second failed attempt.
Processed(id) ==
    \A e \in Lines(id, "end") :
      log[e].kind = "DeleteFilesFromDisk"
        => \A i \in 1..Len(log[e].file_paths) :
             \/ log[e].file_paths[i] \notin log[e].disk
             \/ \E k \in Lines(id, "remove") :
                  log[k].i = i /\ log[k].n = 2 /\ ~log[k].ok

\* C21: deletion is never fatal: a delete task gets through every entry of
\* its list whatever attempts fail and invokes its callback once, no task
\* stops the task runner, and every task posted, the ones queued behind a
\* delete task with failed attempts included, runs to its end.
C21_DeletionNeverFatal ==
    /\ [](\A id \in 1..MaxTasks :
            /\ Processed(id)
            /\ Ended(id) => Cardinality(Lines(id, "callback")) = 1
            /\ \A w \in 1..RunnerThreads : workers[w].pc # "terminated")
    /\ \A id \in 1..MaxTasks : (submitted >= id) ~> Ended(id)

\* A delete task failed twice on its first entry, went on to remove its
\* second, and the task posted after it ended too.
C21_Witness ==
    \E j, k \in Lines(1, "remove") :
      /\ log[j].i = 1 /\ log[j].n = 2 /\ ~log[j].ok
      /\ log[k].i = 2 /\ log[k].ok
      /\ Cardinality(Lines(1, "callback")) = 1
      /\ Ended(2)

\* C22: a request whose engine operation was invoked and whose completion
\* callback has not run has not returned: nothing but the completion
\* callback ends the wait.
C22_NoReturnWithoutCompletion ==
    \A t \in Threads : (invoked[t] /\ completed[t] = "none") => ~Returned(t)

\* AcceptConnectionDart waits on its latch and the engine holds no
\* completion callback for it.
C22_Witness ==
    \E t \in Threads :
      /\ Refused(t)
      /\ cur[t].op = "AcceptConnectionDart"
      /\ pc[t] = "await" /\ finished[t].count = 1
      /\ \A i \in 1..MaxPending : callbacks[i].phase = "free"

\* C23: an event callback makes at most one post, never to a result port,
\* and changes nothing of the bridge: the recorded result port, the current
\* latch pointer, the latches, the listener bindings, the callers' positions
\* and their results stay as they were.
C23_EventCallbackOnlyPosts ==
    [][event'.kind # "none"
         => /\ Len(posted') <= 1
            /\ \A k \in 1..Len(posted') : posted'[k].chan \notin ResultPorts
            /\ port' = port
            /\ adapter_finished' = adapter_finished
            /\ finished' = finished
            /\ listeners' = listeners
            /\ pc' = pc
            /\ results' = results
            /\ callbacks' = callbacks]_vars

\* An event post failed while a request was waiting: the caller still waits.
C23_Witness ==
    /\ event.kind = "lost"
    /\ Len(posted) = 1 /\ ~posted[1].ok
    /\ pc[1] = "await" /\ finished[1].count = 1

\* The payloads ListenerPayloadCB cannot marshal.
Unmarshallable(payload) ==
    \/ payload.type = "NC_PAYLOAD_TYPE_BYTES" /\ payload.size = 0
    \/ payload.type \notin {"NC_PAYLOAD_TYPE_BYTES", "NC_PAYLOAD_TYPE_STREAM",
                            "NC_PAYLOAD_TYPE_FILE"}

\* C24: the payload callback posts nothing at all for an empty bytes payload
\* or a payload of no known type, adds no result to any request and leaves
\* the latches alone.
C24_UnmarshallablePayloadDropped ==
    [][(event'.kind = "payload" /\ Unmarshallable(event'.payload))
         => /\ posted' = <<>>
            /\ results' = results
            /\ finished' = finished
            /\ adapter_finished' = adapter_finished]_vars

\* A payload of unknown type arrived while a request was waiting.
C24_Witness ==
    /\ event.kind = "payload"
    /\ event.payload.type = "NC_PAYLOAD_TYPE_UNKNOWN"
    /\ posted = <<>>
    /\ pc[1] = "await" /\ finished[1].count = 1 /\ results[1] = <<>>

\* The binding the request of t is to install is in place.
BindingInstalled(t) ==
    /\ cur[t].op \in {"StartAdvertisingDart", "RequestConnectionDart"}
         => current_connection_listener_dart = ConnectionListenerDart(cur[t].listener)
    /\ cur[t].op = "StartDiscoveryDart"
         => current_discovery_listener_dart = DiscoveryListenerDart(cur[t].listener)
    /\ cur[t].op = "AcceptConnectionDart"
         => current_payload_listener_dart = PayloadListenerDart(cur[t].listener)

\* C25: when a request invokes its engine operation, the result port is the
\* request's, the binding the request supplies is installed and the current
\* latch is the request's new latch with count 1; and the completion
\* callback of the operation finds the same port and latch.
C25_GateSetBeforeEngineInvoked ==
    [][/\ \A t \in Threads :
            (pc[t] = "invoke" /\ pc'[t] = "await")
              => /\ port = cur[t].result_cb
                 /\ BindingInstalled(t)
                 /\ adapter_finished = LatchPtr(t)
                 /\ finished[t] = NewLatch
       /\ \A i \in 1..MaxPending :
            (callbacks[i].phase = "pending" /\ callbacks'[i].phase = "posted"
               /\ callbacks[i].fresh)
              => /\ port = cur[callbacks[i].owner].result_cb
                 /\ adapter_finished = LatchPtr(callbacks[i].owner)
                 /\ finished[callbacks[i].owner].count = 1]_vars

\* AcceptConnectionDart has just invoked the engine with the second payload
\* listener installed over the first.
C25_Witness ==
    \E t \in Threads :
      /\ invoked[t] /\ pc[t] = "await"
      /\ cur[t].op = "AcceptConnectionDart" /\ cur[t].listener = 2
      /\ cur[t].result_cb = 2 /\ port = 2
      /\ current_payload_listener_dart = PayloadListenerDart(2)
      /\ adapter_finished = LatchPtr(t) /\ finished[t].count = 1
      /\ completed[t] = "none"

\* C26: with two requests in flight and the completion callback of each run
\* once, no caller is left unable to go on: each has returned or can take
\* its next step.
C26_BothCallersReturn ==
    ( /\ ~crashed
      /\ \A u \in Threads : invoked[u] /\ completed[u] # "none"
      /\ \A i \in 1..MaxPending : callbacks[i].phase = "free" )
      => \A t \in Threads : Returned(t) \/ ENABLED Step(t)

\* The completion callback of t's request ran to its end before t waited.
CompletedBeforeWait(t) == pc[t] = "await" /\ CallbackDone(t)

\* C27: when the completion callback has run before the caller waits, the
\* result message has been posted once, the latch the caller is about to
\* wait on is at zero, and the request returns.
C27_NoLostWakeup ==
    /\ [](\A t \in Threads :
            CompletedBeforeWait(t)
              => /\ Len(results[t]) = 1
                 /\ adapter_finished = LatchPtr(t)
                 /\ finished[t].count = 0)
    /\ \A t \in Threads : CompletedBeforeWait(t) ~> Returned(t)

\* RequestConnectionDart has not yet read adapter_finished for its wait and
\* its completion callback is already through.
C27_Witness ==
    \E t \in Threads :
      /\ CompletedBeforeWait(t)
      /\ cur[t].op = "RequestConnectionDart"
      /\ finished[t].count = 0
      /\ Len(results[t]) = 1

====
